---- MODULE Spec2Model ----
(***************************************************************************)
(* Model of the pi-monitor control loop (src/src/monitor.py) together with *)
(* the display and touch drivers it owns (src/hardware/display.py).        *)
(*                                                                         *)
(* Time is counted in ticks of 50 ms: every time.sleep(0.1) of the source  *)
(* advances the clock by SLEEP_TICKS = 2 ticks, and screen_timeout is      *)
(* given in the same unit.                                                 *)
(***************************************************************************)
EXTENDS Integers, Sequences, FiniteSets, TLC

\* ---------------------------------------------------------------- bounds
MaxScreens == 2
MaxTime == 8
MaxWidgets == 3

\* ------------------------------------------------------ program constants
LCD_WIDTH == 320
LCD_HEIGHT == 240
NATIVE_WIDTH == 240
NATIVE_HEIGHT == 320
CHUNK_SIZE == 4096
SLEEP_TICKS == 2

\* values of screen_timeout tried (ticks): always-on (-1, 0), shorter than
\* one debounce delay (1), two delays long (4)
Timeouts == {-1, 0, 1, 4}

\* contents of the point-count register
PointCounts == 0 .. 3

\* first four bytes of a 6-byte coordinate group: <<xh, xl, yh, yl>>
RawBlocks == { <<0, 120, 0, 50>>, <<0, 120, 0, 160>>, <<128, 10, 65, 44>> }

\* the same bytes of the second group, read when two points are reported
SecondBlocks == { <<0, 7, 1, 3>> }

\* coordinate groups tried by SpecTouch: both sides of the two zone limits,
\* the corners of the native panel and values beyond it, and two groups
\* that differ only in the upper nibbles of their high bytes
WideBlocks ==
    { <<0, 120, 0, y>> : y \in {50, 105, 106, 107, 160, 213, 214, 215} }
    \cup { <<128, 10, 65, 44>>, <<0, 10, 1, 44>>, <<0, 239, 1, 63>>,
           <<0, 240, 1, 64>>, <<15, 255, 15, 255>> }

ExcNames == {"none", "KeyboardInterrupt", "I2CError", "SPIError",
             "ZeroDivisionError", "IndexError", "OSError"}

VARIABLES
    pc,                 \* position of run() in its loop
    exc,                \* exception that ended the loop, "none" while running
    num_screens,        \* len(self.screens_config)
    inactivity_timeout, \* self.inactivity_timeout
    current_screen,     \* self.current_screen
    is_sleeping,        \* self.is_sleeping
    last_activity_time, \* self.last_activity_time
    now,                \* time.time()
    backlight,          \* duty cycle last written by bl_DutyCycle
    point_count,        \* cst816d.point_count
    coordinates,        \* cst816d.coordinates
    buf,                \* coordinate block the last poll read
    tp_int,             \* level of the touch-ready input at the last poll
    bus_read,           \* the last poll read the touch controller
    touch_num,          \* point-count register as read by the last poll
    handled,            \* branch handle_input took in this iteration
    frame,              \* image returned by the last draw_screen
    screenshot,         \* what take_screenshot did in this iteration
    sent,               \* chunks of the current frame written so far
    fetcher,            \* which get_data function the UIDrawer was given
    widgets,            \* 'widgets' list of the screen draw_screen renders
    r_pc,               \* position of draw_screen
    r_next,             \* index of the widget the loop of draw_screen is at
    r_exc,              \* exception that left draw_screen, "none" otherwise
    draws,              \* draw calls made on the image so far
    r_index,            \* current_screen_index draw_screen was given
    r_screen,           \* screens_config[r_index] without its widget list
    fetches,            \* calls of self.get_data made by draw_screen so far
    d_pc,               \* position of the st7789 method being followed
    d_exc,              \* exception that left an st7789 method, else "none"
    d_log,              \* writes to the reset pin and the bus by __init__
    madctl,             \* parameter of the last MADCTL command
    window,             \* address window the controller last received
    rgb,                \* the (R, G, B) of the pixels of the image pushed
    pix,                \* the two bytes show_image made of each pixel
    buf_len,            \* length of the buffer being streamed
    transfers,          \* slices of the buffer written since RAMWR
    _network_stats_cache, \* system_info._network_stats_cache
    wall,               \* time.time() in seconds, as system_info reads it
    t_pc,               \* position of _update_and_get_throughput
    t_interface,        \* interface_name of the measurement in progress
    t_now,              \* its local 'now'
    t_result,           \* (rx, tx) the last call returned
    t_calls,            \* get_interface_rx/tx calls of the current render
    t_hits,             \* of these, the calls answered from the cache
    measurements,       \* time.sleep calls of the render, per interface
    dc,                 \* level of the data/command pin
    bus                 \* bus writes of the st7789 method being followed

vars == <<pc, exc, num_screens, inactivity_timeout, current_screen,
          is_sleeping, last_activity_time, now, backlight, point_count,
          coordinates, tp_int, bus_read, touch_num, handled, frame, screenshot,
          sent, fetcher, widgets, r_pc, r_next, r_exc, draws, r_index,
          r_screen, fetches, d_pc, d_exc, d_log, madctl, window, rgb, pix,
          buf_len, transfers, _network_stats_cache, wall, t_pc, t_interface,
          t_now, t_result, t_calls, t_hits, measurements, buf, dc, bus>>

network == <<_network_stats_cache, wall, t_pc, t_interface, t_now, t_result,
             t_calls, t_hits, measurements>>

display == <<d_pc, d_exc, d_log, madctl, window, rgb, pix, buf_len,
             transfers, dc, bus>>

render == <<fetcher, widgets, r_pc, r_next, r_exc, draws, r_index, r_screen,
            fetches>>
config == <<num_screens, inactivity_timeout>>
app == <<current_screen, is_sleeping, last_activity_time, backlight>>
touch == <<point_count, coordinates, buf, tp_int, bus_read, touch_num>>

\* ------------------------------------------------------------ pure parts

\* length of the RGB565 buffer show_image builds
FrameBytes == LCD_WIDTH * LCD_HEIGHT * 2

\* number of spi_writebyte calls of the chunk loop: range(0, len(pix), 4096)
NumChunks == (FrameBytes + CHUNK_SIZE - 1) \div CHUNK_SIZE

\* ((buf[k] & 0x0f) << 8) + buf[k+1]
Decode12_NoMask(hi, lo) == (hi * 256) + lo
Decode12(hi, lo) == ((hi % 16) * 256) + lo

DecodePoint(b) == [x |-> Decode12(b[1], b[2]), y |-> Decode12(b[3], b[4])]

\* the 6 * n bytes read from TOUCH_XY_REG: a group is its four coordinate
\* bytes and two more; groups past the second are never decoded
Group(b) == b \o <<0, 0>>
Block(n, b1, b2) ==
    Group(b1) \o (IF n >= 2 THEN Group(b2) ELSE <<>>)
              \o (IF n >= 3 THEN Group(<<0, 0, 0, 0>>) ELSE <<>>)

ZeroPoint == [x |-> 0, y |-> 0]

LEFT_ZONE_X_END == LCD_WIDTH \div 3
RIGHT_ZONE_X_START == LCD_WIDTH - (LCD_WIDTH \div 3)

\* the zone test of handle_input on ui_x = touch_y
Zone_Inclusive(ui_x) ==
    IF ui_x <= LEFT_ZONE_X_END THEN "left"
    ELSE IF ui_x >= RIGHT_ZONE_X_START THEN "right"
    ELSE "center"
Zone_Halves(ui_x) ==
    IF ui_x < LCD_WIDTH \div 2 THEN "left" ELSE "right"
Zone(ui_x) ==
    IF ui_x < LEFT_ZONE_X_END THEN "left"
    ELSE IF ui_x > RIGHT_ZONE_X_START THEN "right"
    ELSE "center"

\* (self.current_screen - 1) % len(self.screens_config)
NavLeft_NoWrap(cur, n) == IF cur > 0 THEN cur - 1 ELSE 0
NavLeft_Negative(cur, n) == cur - 1
NavLeft(cur, n) == (cur - 1) % n

\* (self.current_screen + 1) % len(self.screens_config)
NavRight_OffByOne(cur, n) == (cur + 1) % (n + 1)
NavRight(cur, n) == (cur + 1) % n

\* self.inactivity_timeout > 0 and time.time() - last_activity_time > timeout
TimedOut_NoGuard(t, last, timeout) == t - last > timeout
TimedOut_AtLeast(t, last, timeout) == timeout > 0 /\ t - last >= timeout
TimedOut(t, last, timeout) == timeout > 0 /\ t - last > timeout

\* time.sleep(0.1)
Sleep == now + SLEEP_TICKS <= MaxTime /\ now' = now + SLEEP_TICKS

\* an exception leaves the loop body for the finally clause of run()
Raise(e) == exc' = e /\ pc' = "finally"

\* no image rendered yet
NoImage == [type |-> "none", index |-> 0]

\* take_screenshot was not called
NoScreenshot == [result |-> "none", image |-> NoImage]

\* ------------------------------------------------------------------ Init
LoopInit ==
    /\ pc = "keyboard"
    /\ exc = "none"
    /\ num_screens \in 0 .. MaxScreens
    /\ inactivity_timeout \in Timeouts
    /\ current_screen = 0
    /\ is_sleeping = FALSE
    /\ last_activity_time = 0
    /\ now = 0
    /\ backlight = 100
    /\ point_count = 0
    /\ coordinates = <<ZeroPoint, ZeroPoint>>
    /\ buf = <<>>
    /\ tp_int = FALSE
    /\ bus_read = FALSE
    /\ touch_num = 0
    /\ handled = "none"
    /\ frame = NoImage
    /\ screenshot = NoScreenshot
    /\ sent = 0

\* the renderer before any draw_screen call that is followed widget by widget
RenderIdle ==
    /\ fetcher = "monitor"
    /\ widgets = <<>>
    /\ r_pc = "idle"
    /\ r_next = 0
    /\ r_exc = [type |-> "none", site |-> "none"]
    /\ draws = <<>>
    /\ r_index = 0
    /\ r_screen = [title |-> "System"]
    /\ fetches = 0

\* the display driver while none of its methods is followed write by write
DisplayIdle ==
    /\ d_pc = "ready"
    /\ d_exc = "none"
    /\ d_log = <<>>
    /\ madctl = 0
    /\ window = [xs |-> 0, xe |-> 0, ys |-> 0, ye |-> 0]
    /\ rgb = <<0, 0, 0>>
    /\ pix = <<0, 0>>
    /\ buf_len = 0
    /\ transfers = <<>>
    /\ dc = TRUE
    /\ bus = <<>>

\* system_info as its import leaves it: an empty cache, no call in progress
Interfaces == {"eth0", "wlan0"}

NoResult == <<"none", "none">>

ThroughputIdle ==
    /\ _network_stats_cache = [n \in {} |-> 0]
    /\ wall = 0
    /\ t_pc = "idle"
    /\ t_interface = "none"
    /\ t_now = 0
    /\ t_result = NoResult
    /\ t_calls = 0
    /\ t_hits = 0
    /\ measurements = [i \in Interfaces |-> 0]

Init == LoopInit /\ RenderIdle /\ DisplayIdle /\ ThroughputIdle

\* ------------------------------------------------------------ operations

\* UIDrawer.draw_screen: which image it returns
draw_screen(index) ==
    IF num_screens = 0 THEN [type |-> "diagnostic", index |-> 0]
    ELSE [type |-> "screen", index |-> index]

\* ServerMonitor.take_screenshot: render, create the directory, save
take_screenshot ==
    \E fail \in {"none", "mkdir", "save"} :
       /\ screenshot' =
             [result |-> CASE fail = "mkdir" -> "mkdir_failed"
                           [] fail = "save" -> "save_failed"
                           [] OTHER -> "saved",
              image |-> draw_screen(current_screen)]
       /\ IF fail = "mkdir" THEN Raise("OSError")
          ELSE pc' = "read" /\ UNCHANGED exc

\* ServerMonitor._check_for_keyboard_input, the stripped and lower-cased
\* line drawn from Commands ("" when stdin has no line)
check_for_keyboard_input(Commands) ==
    /\ pc = "keyboard"
    /\ \E command \in Commands :
          IF command = "s" THEN take_screenshot
          ELSE /\ screenshot' = NoScreenshot
               /\ pc' = "read"
               /\ UNCHANGED exc
    /\ UNCHANGED <<network, display, render, config, app, now, touch, handled,
                   frame, sent>>

\* the check while the operator issues no screenshot command
CheckForKeyboardInput == check_for_keyboard_input({"", "x"})

\* the check with the screenshot command among the lines
CheckForKeyboardInputAll == check_for_keyboard_input({"", "s", "x"})

\* cst816d.read_touch_data, the first coordinate group drawn from Blocks
read_touch_data(Blocks) ==
    /\ pc = "read"
    /\ \E int \in BOOLEAN, fail \in {"none", "num", "xy"},
          n \in PointCounts, b1 \in Blocks, b2 \in SecondBlocks :
          /\ tp_int' = int
          /\ bus_read' = TRUE
          /\ IF fail = "num"
             THEN /\ Raise("I2CError")
                  /\ UNCHANGED <<point_count, coordinates, buf, touch_num>>
             ELSE IF n = 0
             THEN /\ touch_num' = 0
                  /\ pc' = "handle"
                  /\ UNCHANGED <<exc, point_count, coordinates, buf>>
             ELSE /\ touch_num' = n
                  /\ point_count' = n
                  /\ IF fail = "xy"
                     THEN Raise("I2CError")
                          /\ UNCHANGED <<coordinates, buf>>
                     ELSE /\ buf' = Block(n, b1, b2)
                          /\ coordinates' =
                               << DecodePoint(b1),
                                  IF n >= 2 THEN DecodePoint(b2)
                                  ELSE ZeroPoint >>
                          /\ IF n > 2 THEN Raise("IndexError")
                             ELSE pc' = "handle" /\ UNCHANGED exc
    /\ UNCHANGED <<network, display, render, config, app, now, handled, frame,
                   screenshot, sent>>

ReadTouchData == read_touch_data(RawBlocks)

\* the same poll with the wider choice of coordinate groups
ReadTouchDataWide == read_touch_data(WideBlocks)

\* cst816d.get_touch_xy: the count is handed out once and reset
get_touch_xy_KeepCount == UNCHANGED point_count
get_touch_xy == point_count' = 0

\* ServerMonitor.wake_up
WakeUp_KeepTimer ==
    IF is_sleeping
    THEN is_sleeping' = FALSE /\ backlight' = 100
         /\ UNCHANGED last_activity_time
    ELSE UNCHANGED <<is_sleeping, backlight, last_activity_time>>
WakeUp_Unguarded ==
    is_sleeping' = FALSE /\ backlight' = 100 /\ last_activity_time' = now
WakeUp ==
    IF is_sleeping
    THEN is_sleeping' = FALSE /\ backlight' = 100
         /\ last_activity_time' = now
    ELSE UNCHANGED <<is_sleeping, backlight, last_activity_time>>

\* ServerMonitor.sleep_display
SleepDisplay_NoBacklight ==
    IF ~is_sleeping
    THEN is_sleeping' = TRUE /\ UNCHANGED backlight
    ELSE UNCHANGED <<is_sleeping, backlight>>
SleepDisplay ==
    IF ~is_sleeping
    THEN is_sleeping' = TRUE /\ backlight' = 0
    ELSE UNCHANGED <<is_sleeping, backlight>>

\* ServerMonitor.handle_input after read_touch_data: get_touch_xy and the
\* reaction to the sample
HandleInput_EdgeTriggered ==
    /\ pc = "handle"
    /\ get_touch_xy
    /\ UNCHANGED <<network, display, render, config, coordinates, buf, tp_int,
                   bus_read, touch_num, frame, screenshot, sent>>
    /\ IF point_count > 0
       THEN IF is_sleeping
            THEN /\ WakeUp
                 /\ Sleep
                 /\ handled' = "wake"
                 /\ pc' = "check"
                 /\ UNCHANGED <<exc, current_screen>>
            ELSE /\ last_activity_time' = now
                 /\ handled' = Zone(coordinates[1].y)
                 /\ UNCHANGED <<is_sleeping, backlight>>
                 /\ IF Zone(coordinates[1].y) = "center"
                       \/ Zone(coordinates[1].y) = handled
                    THEN /\ pc' = "check"
                         /\ UNCHANGED <<exc, current_screen, now>>
                    ELSE IF num_screens = 0
                    THEN /\ Raise("ZeroDivisionError")
                         /\ UNCHANGED <<current_screen, now>>
                    ELSE /\ current_screen' =
                              IF Zone(coordinates[1].y) = "left"
                              THEN NavLeft(current_screen, num_screens)
                              ELSE NavRight(current_screen, num_screens)
                         /\ Sleep
                         /\ pc' = "check"
                         /\ UNCHANGED exc
       ELSE /\ handled' = "none"
            /\ pc' = "check"
            /\ UNCHANGED <<exc, app, now>>
HandleInput_CenterIdle ==
    /\ pc = "handle"
    /\ get_touch_xy
    /\ UNCHANGED <<network, display, render, config, coordinates, buf, tp_int,
                   bus_read, touch_num, frame, screenshot, sent>>
    /\ IF point_count > 0
       THEN IF is_sleeping
            THEN /\ WakeUp
                 /\ Sleep
                 /\ handled' = "wake"
                 /\ pc' = "check"
                 /\ UNCHANGED <<exc, current_screen>>
            ELSE /\ last_activity_time' =
                       IF Zone(coordinates[1].y) = "center"
                       THEN last_activity_time ELSE now
                 /\ handled' = Zone(coordinates[1].y)
                 /\ UNCHANGED <<is_sleeping, backlight>>
                 /\ IF Zone(coordinates[1].y) = "center"
                    THEN /\ pc' = "check"
                         /\ UNCHANGED <<exc, current_screen, now>>
                    ELSE IF num_screens = 0
                    THEN /\ Raise("ZeroDivisionError")
                         /\ UNCHANGED <<current_screen, now>>
                    ELSE /\ current_screen' =
                              IF Zone(coordinates[1].y) = "left"
                              THEN NavLeft(current_screen, num_screens)
                              ELSE NavRight(current_screen, num_screens)
                         /\ Sleep
                         /\ pc' = "check"
                         /\ UNCHANGED exc
       ELSE /\ handled' = "none"
            /\ pc' = "check"
            /\ UNCHANGED <<exc, app, now>>
HandleInput ==
    /\ pc = "handle"
    /\ get_touch_xy
    /\ UNCHANGED <<network, display, render, config, coordinates, buf, tp_int,
                   bus_read, touch_num, frame, screenshot, sent>>
    /\ IF point_count > 0
       THEN IF is_sleeping
            THEN /\ WakeUp
                 /\ Sleep
                 /\ handled' = "wake"
                 /\ pc' = "check"
                 /\ UNCHANGED <<exc, current_screen>>
            ELSE /\ last_activity_time' = now
                 /\ handled' = Zone(coordinates[1].y)
                 /\ UNCHANGED <<is_sleeping, backlight>>
                 /\ IF Zone(coordinates[1].y) = "center"
                    THEN /\ pc' = "check"
                         /\ UNCHANGED <<exc, current_screen, now>>
                    ELSE IF num_screens = 0
                    THEN /\ Raise("ZeroDivisionError")
                         /\ UNCHANGED <<current_screen, now>>
                    ELSE /\ current_screen' =
                              IF Zone(coordinates[1].y) = "left"
                              THEN NavLeft(current_screen, num_screens)
                              ELSE NavRight(current_screen, num_screens)
                         /\ Sleep
                         /\ pc' = "check"
                         /\ UNCHANGED exc
       ELSE /\ handled' = "none"
            /\ pc' = "check"
            /\ UNCHANGED <<exc, app, now>>

\* run(): the sleeping test and the inactivity test after handle_input
EvaluateTimeout_DrawAsleep ==
    /\ pc = "check"
    /\ IF ~is_sleeping
          /\ TimedOut(now, last_activity_time, inactivity_timeout)
       THEN /\ SleepDisplay
            /\ pc' = "keyboard"
            /\ UNCHANGED now
       ELSE /\ pc' = "draw"
            /\ UNCHANGED <<is_sleeping, backlight, now>>
    /\ UNCHANGED <<network, display, render, exc, config, current_screen,
                   last_activity_time, touch, handled, frame, screenshot,
                   sent>>
EvaluateTimeout ==
    /\ pc = "check"
    /\ IF is_sleeping
       THEN /\ Sleep
            /\ pc' = "keyboard"
            /\ UNCHANGED <<is_sleeping, backlight>>
       ELSE IF TimedOut(now, last_activity_time, inactivity_timeout)
       THEN /\ SleepDisplay
            /\ pc' = "keyboard"
            /\ UNCHANGED now
       ELSE /\ pc' = "draw"
            /\ UNCHANGED <<is_sleeping, backlight, now>>
    /\ UNCHANGED <<network, display, render, exc, config, current_screen,
                   last_activity_time, touch, handled, frame, screenshot,
                   sent>>

\* run(): image = self.ui_drawer.draw_screen(self.current_screen)
DrawScreen ==
    /\ pc = "draw"
    /\ frame' = draw_screen(current_screen)
    /\ pc' = "show"
    /\ UNCHANGED <<network, display, render, exc, config, app, now, touch,
                   handled, screenshot, sent>>

\* st7789.show_image up to the chunk loop: size test, MADCTL, set_windows
ShowImage ==
    /\ pc = "show"
    /\ sent' = 0
    /\ \E fail \in BOOLEAN :
          IF fail THEN Raise("SPIError")
          ELSE pc' = "chunks" /\ UNCHANGED exc
    /\ UNCHANGED <<network, display, render, config, app, now, touch, handled,
                   frame, screenshot>>

\* st7789.show_image: one spi_writebyte of the chunk loop
WriteChunk ==
    /\ pc = "chunks"
    /\ sent < NumChunks
    /\ \E fail \in BOOLEAN :
          IF fail THEN Raise("SPIError") /\ UNCHANGED sent
          ELSE sent' = sent + 1 /\ UNCHANGED <<pc, exc>>
    /\ UNCHANGED <<network, display, render, config, app, now, touch, handled,
                   frame, screenshot>>

\* run(): time.sleep(0.1) after show_image returned
IdleDelay ==
    /\ pc = "chunks"
    /\ sent = NumChunks
    /\ Sleep
    /\ pc' = "keyboard"
    /\ UNCHANGED <<network, display, render, exc, config, app, touch, handled,
                   frame, screenshot, sent>>

\* SIGINT: Python raises KeyboardInterrupt between any two bytecodes
Interrupt ==
    /\ pc \notin {"finally", "done"}
    /\ Raise("KeyboardInterrupt")
    /\ UNCHANGED <<network, display, render, config, app, now, touch, handled,
                   frame, screenshot, sent>>

\* run(): finally: self.disp.bl_DutyCycle(100)
Finally_NoRestore ==
    /\ pc = "finally"
    /\ pc' = "done"
    /\ UNCHANGED <<network, display, render, exc, config, app, now, touch,
                   handled, frame, screenshot, sent>>
Finally ==
    /\ pc = "finally"
    /\ backlight' = 100
    /\ pc' = "done"
    /\ UNCHANGED <<network, display, render, exc, config, current_screen,
                   is_sleeping, last_activity_time, now, touch, handled,
                   frame, screenshot, sent>>

Next ==
    \/ CheckForKeyboardInput
    \/ ReadTouchData
    \/ HandleInput
    \/ EvaluateTimeout
    \/ DrawScreen
    \/ ShowImage
    \/ WriteChunk
    \/ IdleDelay
    \/ Interrupt
    \/ Finally

Spec == Init /\ [][Next]_vars

\* The same loop on a two-delay timeout and the largest screen list, polled
\* with the wider choice of coordinate groups.
InitTouch ==
    /\ Init
    /\ num_screens = MaxScreens
    /\ inactivity_timeout = 4

NextTouch ==
    \/ CheckForKeyboardInput
    \/ ReadTouchDataWide
    \/ HandleInput
    \/ EvaluateTimeout
    \/ DrawScreen
    \/ ShowImage
    \/ WriteChunk
    \/ IdleDelay
    \/ Interrupt
    \/ Finally

SpecTouch == InitTouch /\ [][NextTouch]_vars

\* The same loop on a timeout shorter than one delay and the largest screen
\* list, with the operator issuing screenshot commands.
InitKeyboard ==
    /\ Init
    /\ num_screens = MaxScreens
    /\ inactivity_timeout = 1

NextKeyboard ==
    \/ CheckForKeyboardInputAll
    \/ ReadTouchData
    \/ HandleInput
    \/ EvaluateTimeout
    \/ DrawScreen
    \/ ShowImage
    \/ WriteChunk
    \/ IdleDelay
    \/ Interrupt
    \/ Finally

SpecKeyboard == InitKeyboard /\ [][NextKeyboard]_vars

\* The same loop on every non-empty screen list and both positive
\* timeouts, with touches, timeouts and screenshot commands in any order.
InitNav ==
    /\ Init
    /\ num_screens \in 1 .. MaxScreens
    /\ inactivity_timeout \in {1, 4}

NextNav ==
    \/ CheckForKeyboardInputAll
    \/ ReadTouchData
    \/ HandleInput
    \/ EvaluateTimeout
    \/ DrawScreen
    \/ ShowImage
    \/ WriteChunk
    \/ IdleDelay
    \/ Interrupt
    \/ Finally

SpecNav == InitNav /\ [][NextNav]_vars

\* -------------------------------------------------------------- renderer

\* Python values as the renderer meets them: type name and, where it has
\* one, the text str() gives; a dict carries its items, a list its elements.
PyNone == [type |-> "NoneType", text |-> "None"]
PyStr(s) == [type |-> "str", text |-> s]
PyInt(s) == [type |-> "int", text |-> s]
PyDict(d) == [type |-> "dict", items |-> d]
PyList(l) == [type |-> "list", items |-> l]

\* dict.get(key, default)
get(d, key, default) == IF key \in DOMAIN d THEN d[key] ELSE default

\* the truth value Python's `not` tests
Falsy(v) ==
    \/ v.type = "NoneType"
    \/ v.type = "str" /\ v.text = ""
    \/ v.type = "int" /\ v.text = "0"
    \/ v.type = "dict" /\ DOMAIN v.items = {}
    \/ v.type = "list" /\ v.items = <<>>

\* how a call ends: a returned value or an exception
Return(v) == [exc |-> "none", value |-> v]
Raises(e) == [exc |-> e, value |-> PyNone]

\* module system_info: the attributes the data sources below name
Functions == {"get_hostname", "get_cpu_cores", "get_interface_rx"}
Attributes == Functions \cup {"_THROUGHPUT_CACHE_SECONDS"}
Arity(name) == IF name = "get_interface_rx" THEN 1 ELSE 0

\* getattr(system_info, func_name, None): the attribute's name, "" for None
getattr_system_info(func_name) ==
    IF func_name.type # "str" THEN Raises("TypeError")
    ELSE IF func_name.text \in Attributes THEN Return(PyStr(func_name.text))
    ELSE Return(PyNone)

callable(func) == func.type = "str" /\ func.text \in Functions

\* func(*args): every way the call can end on some host
Call(func, args) ==
    IF args.type # "list" \/ Len(args.items) # Arity(func.text)
    THEN {Raises("TypeError")}
    ELSE IF func.text = "get_hostname"
    THEN {Return(PyStr("raspberrypi")), Return(PyStr("N/A"))}
    ELSE IF func.text = "get_cpu_cores"
    THEN {Return(PyInt("4")), Return(PyStr("N/A"))}
    ELSE IF args.items[1].type # "str"
    THEN {Raises("TypeError")}
    ELSE {Return(PyStr("1.20 KB/s")), Return(PyStr("N/A")),
          Return(PyStr("Error"))}

\* try: return func(*args) / except Exception: return the sentinel
TryCall(func, args, sentinel) ==
    { IF o.exc = "none" THEN o ELSE Return(PyStr(sentinel)) :
        o \in Call(func, args) }

\* ServerMonitor._get_data
_get_data(data_source) ==
    IF Falsy(data_source) THEN {Return(PyNone)}
    ELSE
      LET func_name ==
              IF data_source.type = "str" THEN data_source
              ELSE IF data_source.type = "dict"
              THEN get(data_source.items, "name", PyNone)
              ELSE PyNone
          args ==
              IF data_source.type = "dict"
              THEN get(data_source.items, "args", PyList(<<>>))
              ELSE PyList(<<>>)
          func == getattr_system_info(func_name)
      IN  IF Falsy(func_name) THEN {Return(PyStr("Error"))}
          ELSE IF func.exc # "none" THEN {func}
          ELSE IF callable(func.value)
          THEN TryCall(func.value, args, "Call Error")
          ELSE {Return(PyStr("Error"))}

\* get_data of generate_screenshots.py
get_data(data_source) ==
    IF Falsy(data_source) THEN {Return(PyNone)}
    ELSE IF data_source.type \notin {"str", "dict"}
    THEN {Raises("AttributeError")}
    ELSE
      LET func_name ==
              IF data_source.type = "str" THEN data_source
              ELSE get(data_source.items, "name", PyNone)
          args ==
              IF data_source.type = "dict"
              THEN get(data_source.items, "args", PyList(<<>>))
              ELSE PyList(<<>>)
          func == getattr_system_info(func_name)
      IN  IF func.exc # "none" THEN {func}
          ELSE IF callable(func.value)
          THEN TryCall(func.value, args, "Call Error")
          ELSE {Return(PyStr("Not Found"))}

\* UIDrawer.get_data, the get_data_func it was constructed with
self_get_data(data_source) ==
    IF fetcher = "monitor" THEN _get_data(data_source)
    ELSE get_data(data_source)

\* the strings the fetchers return in place of a value
Sentinels == {"Error", "Call Error", "Not Found"}

\* data-source references a widget may carry
Eth0 == PyList(<<PyStr("eth0")>>)
DataSources ==
    { PyStr(""), PyStr("get_hostname"), PyStr("get_cpu_cores"),
      PyStr("get_interface_rx"), PyStr("no_such_function"),
      PyStr("_THROUGHPUT_CACHE_SECONDS"),
      PyDict([name |-> PyStr("get_cpu_cores")]),
      PyDict([name |-> PyStr("get_interface_rx"), args |-> Eth0]),
      PyDict([name |-> PyStr("get_interface_rx"),
            args |-> PyList(<<PyList(<<>>)>>)]),
      PyDict([name |-> PyStr("get_hostname"), args |-> Eth0]),
      PyDict([name |-> PyStr("no_such_function"), args |-> Eth0]),
      PyDict([name |-> PyInt("5")]),
      PyDict([args |-> Eth0]),
      PyDict(<<>>),
      PyList(<<PyStr("get_hostname")>>) }

\* a template with one replacement field, kept with its parse: the literal
\* text before the field and the field's format spec
DefaultTemplate == [text |-> "{data}", prefix |-> "", spec |-> ""]
NumericTemplate ==
    [text |-> "Cores: {data:d}", prefix |-> "Cores: ", spec |-> "d"]

\* template.format(data=value)
format(template, value) ==
    IF template.spec = ""
    THEN Return(PyStr(template.prefix \o value.text))
    ELSE IF value.type = "int"
    THEN Return(PyStr(template.prefix \o value.text))
    ELSE IF value.type = "str" THEN Raises("ValueError")
    ELSE Raises("TypeError")

\* how a widget handler ends: the draw calls it made, or the exception that
\* left it and the call that raised it
Drawn(ops) == [exc |-> "none", site |-> "none", ops |-> ops]
Failed(e, site) == [exc |-> e, site |-> site, ops |-> <<>>]

\* draw.text(xy, string)
text(xy, string) == [op |-> "text", xy |-> xy, text |-> string]

\* UIDrawer._draw_widget_line_item
_draw_widget_line_item(widget_config) ==
    { IF value.exc # "none" THEN Failed(value.exc, "get_data")
      ELSE
        LET data_pos ==
                <<widget_config.position[1]
                      + get(widget_config, "data_x_offset", 140),
                  widget_config.position[2]>>
        IN  Drawn(<<text(widget_config.position,
                         get(widget_config, "label", "")),
                    text(data_pos, value.value.text)>>) :
        value \in self_get_data(get(widget_config, "data_source", PyNone)) }

\* UIDrawer._draw_widget_dynamic_text
_draw_widget_dynamic_text(widget_config) ==
    { IF value.exc # "none" THEN Failed(value.exc, "get_data")
      ELSE
        LET formatted ==
                format(get(widget_config, "template", DefaultTemplate),
                       value.value)
        IN  IF formatted.exc # "none" THEN Failed(formatted.exc, "format")
            ELSE Drawn(<<text(widget_config.position, formatted.value.text)>>) :
        value \in self_get_data(get(widget_config, "data_source", PyNone)) }

\* UIDrawer._draw_widget_static_text
_draw_widget_static_text(widget_config) ==
    { IF value.exc # "none" THEN Failed(value.exc, "get_data")
      ELSE Drawn(<<text(widget_config.position, value.value.text)>>) :
        value \in self_get_data(get(widget_config, "data_source", PyNone)) }

_draw_widget_unknown_Marker(widget_config) ==
    {Drawn(<<text(widget_config.position, "?")>>)}

\* UIDrawer._draw_widget_unknown: a line on the console, nothing on the image
_draw_widget_unknown(widget_config) == {Drawn(<<>>)}

\* the _draw_widget_* methods UIDrawer has, by the type that selects them
WidgetMethods == {"line_item", "dynamic_text", "static_text", "unknown"}

\* the widget loop's lookup: getattr(self, "_draw_widget_" + type, unknown)
draw_func(widget_config) ==
    LET widget_type == get(widget_config, "type", "unknown")
    IN  IF widget_type \in WidgetMethods THEN widget_type ELSE "unknown"

\* draw_func(draw, widget_config)
DrawFunc(widget_config) ==
    LET name == draw_func(widget_config)
    IN  IF name = "line_item" THEN _draw_widget_line_item(widget_config)
        ELSE IF name = "dynamic_text"
        THEN _draw_widget_dynamic_text(widget_config)
        ELSE IF name = "static_text"
        THEN _draw_widget_static_text(widget_config)
        ELSE _draw_widget_unknown(widget_config)

\* widget descriptors of a screen: every one at the same position
Position == <<10, 60>>
LineItems ==
    { [type |-> "line_item", position |-> Position, label |-> "CPU"] }
    \cup { [type |-> "line_item", position |-> Position, label |-> "CPU",
            data_source |-> d] : d \in DataSources }
    \cup { [type |-> "line_item", position |-> Position,
            data_source |-> PyStr("get_cpu_cores"), data_x_offset |-> 100] }
LineItemsWithSub ==
    { [type |-> "line_item_with_sub", position |-> Position, label |-> "Net",
       data_source |-> d] :
        d \in {PyStr("get_hostname"), PyStr("no_such_function")} }
    \cup { [type |-> "line_item_with_sub", position |-> Position,
            label |-> "Net", data_source |-> PyStr("get_hostname"),
            data_x_offset |-> 100, sub_y_offset |-> 30] }
DynamicTexts ==
    { [type |-> "dynamic_text", position |-> Position] }
    \cup { [type |-> "dynamic_text", position |-> Position,
            data_source |-> d] : d \in DataSources }
    \cup { [type |-> "dynamic_text", position |-> Position,
            template |-> NumericTemplate] }
    \cup { [type |-> "dynamic_text", position |-> Position,
            data_source |-> d, template |-> NumericTemplate] :
            d \in DataSources }
StaticTexts ==
    { [type |-> "static_text", position |-> Position] }
    \cup { [type |-> "static_text", position |-> Position,
            data_source |-> d] : d \in DataSources }
Unrecognized ==
    { [position |-> Position, data_source |-> PyStr("get_hostname")],
      [type |-> "gauge", position |-> Position,
       data_source |-> PyStr("get_hostname")],
      [type |-> "gauge", position |-> Position,
       data_source |-> PyDict([name |-> PyInt("5")])] }
Widgets ==
    LineItems \cup LineItemsWithSub \cup DynamicTexts \cup StaticTexts
        \cup Unrecognized

\* the widgets that fill the rest of a screen
PlainWidgets ==
    { [type |-> "line_item", position |-> Position, label |-> "Host",
       data_source |-> PyStr("get_hostname")],
      [type |-> "static_text", position |-> Position,
       data_source |-> PyDict([name |-> PyStr("get_cpu_cores")])],
      [type |-> "gauge", position |-> Position,
       data_source |-> PyStr("get_hostname")] }

\* widget lists of up to MaxWidgets entries, at most one entry of which is
\* not a plain widget
Screens ==
    UNION { { [i \in 1 .. n |-> IF i = k THEN w ELSE p[i]] :
                k \in 1 .. n, w \in Widgets, p \in [1 .. n -> PlainWidgets] }
            \cup [1 .. n -> PlainWidgets] : n \in 0 .. MaxWidgets }

\* the draw calls of draw_screen ahead of the widget loop
BaseDraws ==
    << [op |-> "new", widget |-> 0, text |-> ""],
       [op |-> "rectangle", widget |-> 0, text |-> ""],
       [op |-> "polygon", widget |-> 0, text |-> "", tip_x |-> 10],
       [op |-> "polygon", widget |-> 0, text |-> "",
        tip_x |-> LCD_WIDTH - 10],
       [op |-> "text", widget |-> 0, text |-> get(r_screen, "title", ""),
        x |-> 40] >>

\* a widget's draw call, marked with the widget's place in the list
Mark(d, i) == [op |-> d.op, widget |-> i, text |-> d.text, xy |-> d.xy]

NoException == [type |-> "none", site |-> "none"]

\* screen descriptors: one standard screen; hero screens without an image
\* path, with an empty one, and with the name of a file under assets/images
StandardScreens == { [title |-> "System"] }
HeroScreens ==
    { [type |-> "hero", title |-> "Logo"],
      [type |-> "hero", title |-> "Logo", image_path |-> PyStr("")],
      [type |-> "hero", title |-> "Logo", image_path |-> PyStr("logo.png")] }

\* widget lists a hero screen may carry in the configuration
HeroWidgetLists ==
    { <<>>,
      << [type |-> "line_item", position |-> Position, label |-> "Host",
          data_source |-> PyStr("get_hostname")] >> }

\* the entry a screen list without this index stands for
NoScreen == [title |-> ""]

RenderDiagnostic_Indexed ==
    /\ r_pc = "idle"
    /\ num_screens = 0
    /\ r_exc' = [type |-> "IndexError", site |-> "screens_config"]
    /\ r_pc' = "raised"
    /\ UNCHANGED <<fetcher, widgets, r_next, draws, r_index, r_screen,
                   fetches>>
    /\ UNCHANGED <<network, display, pc, exc, config, app, now, touch,
                   handled, frame, screenshot, sent>>

\* draw_screen on an empty screen list: the frame with the error text
RenderDiagnostic ==
    /\ r_pc = "idle"
    /\ num_screens = 0
    /\ draws' =
          << [op |-> "new", widget |-> 0, text |-> ""],
             [op |-> "text", widget |-> 0,
              text |-> "Error: No screens in config.yaml", xy |-> <<10, 10>>] >>
    /\ r_pc' = "returned"
    /\ UNCHANGED <<fetcher, widgets, r_next, r_exc, r_index, r_screen,
                   fetches>>
    /\ UNCHANGED <<network, display, pc, exc, config, app, now, touch,
                   handled, frame, screenshot, sent>>

\* screen_config = self.screens_config[current_screen_index] past the end
RenderIndexError ==
    /\ r_pc = "idle"
    /\ num_screens > 0
    /\ r_index >= num_screens
    /\ r_exc' = [type |-> "IndexError", site |-> "screens_config"]
    /\ r_pc' = "raised"
    /\ UNCHANGED <<fetcher, widgets, r_next, draws, r_index, r_screen,
                   fetches>>
    /\ UNCHANGED <<network, display, pc, exc, config, app, now, touch,
                   handled, frame, screenshot, sent>>

\* UIDrawer._draw_hero_screen, Image.open ending in each way it can
_draw_hero_screen_NoCatch ==
    LET image_name == get(r_screen, "image_path", PyNone)
        new == [op |-> "new", widget |-> 0, text |-> ""]
    IN  IF Falsy(image_name)
        THEN /\ draws' = <<new>>
             /\ r_pc' = "returned"
             /\ UNCHANGED r_exc
        ELSE \E opened \in {"image", "FileNotFoundError", "OSError"} :
                IF opened = "image"
                THEN /\ draws' =
                           <<new, [op |-> "paste", widget |-> 0,
                                   text |-> image_name.text]>>
                     /\ r_pc' = "returned"
                     /\ UNCHANGED r_exc
                ELSE /\ r_exc' = [type |-> opened, site |-> "Image.open"]
                     /\ r_pc' = "raised"
                     /\ UNCHANGED draws
_draw_hero_screen ==
    LET image_name == get(r_screen, "image_path", PyNone)
        new == [op |-> "new", widget |-> 0, text |-> ""]
    IN  IF Falsy(image_name)
        THEN /\ draws' =
                   <<new, [op |-> "text", widget |-> 0, xy |-> <<10, 10>>,
                           text |->
                             "Error: image_path not set for hero screen."]>>
             /\ r_pc' = "returned"
             /\ UNCHANGED r_exc
        ELSE \E opened \in {"image", "FileNotFoundError", "OSError"} :
                IF opened = "image"
                THEN /\ draws' =
                           <<new, [op |-> "paste", widget |-> 0,
                                   text |-> image_name.text]>>
                     /\ r_pc' = "returned"
                     /\ UNCHANGED r_exc
                ELSE IF opened = "FileNotFoundError"
                THEN /\ draws' =
                           <<new, [op |-> "text", widget |-> 0,
                                   xy |-> <<10, 10>>,
                                   text |-> "Error: Cannot find "
                                              \o image_name.text]>>
                     /\ r_pc' = "returned"
                     /\ UNCHANGED r_exc
                ELSE /\ r_exc' = [type |-> opened, site |-> "Image.open"]
                     /\ r_pc' = "raised"
                     /\ UNCHANGED draws

\* draw_screen of a hero screen
RenderHero ==
    /\ r_pc = "idle"
    /\ num_screens > 0
    /\ r_index < num_screens
    /\ get(r_screen, "type", "standard") = "hero"
    /\ _draw_hero_screen
    /\ UNCHANGED <<fetcher, widgets, r_next, r_index, r_screen, fetches>>
    /\ UNCHANGED <<network, display, pc, exc, config, app, now, touch,
                   handled, frame, screenshot, sent>>

\* draw_screen of a standard screen, up to the widget loop
RenderStart_TitleFirst ==
    /\ r_pc = "idle"
    /\ num_screens > 0
    /\ r_index < num_screens
    /\ get(r_screen, "type", "standard") # "hero"
    /\ draws' = <<BaseDraws[5], BaseDraws[1], BaseDraws[2], BaseDraws[3],
                  BaseDraws[4]>>
    /\ r_next' = 1
    /\ r_pc' = "widgets"
    /\ UNCHANGED <<fetcher, widgets, r_exc, r_index, r_screen, fetches>>
    /\ UNCHANGED <<network, display, pc, exc, config, app, now, touch,
                   handled, frame, screenshot, sent>>
RenderStart ==
    /\ r_pc = "idle"
    /\ num_screens > 0
    /\ r_index < num_screens
    /\ get(r_screen, "type", "standard") # "hero"
    /\ draws' = BaseDraws
    /\ r_next' = 1
    /\ r_pc' = "widgets"
    /\ UNCHANGED <<fetcher, widgets, r_exc, r_index, r_screen, fetches>>
    /\ UNCHANGED <<network, display, pc, exc, config, app, now, touch,
                   handled, frame, screenshot, sent>>

\* one turn of the widget loop
DrawWidget ==
    /\ r_pc = "widgets"
    /\ r_next <= Len(widgets)
    /\ fetches' =
          IF draw_func(widgets[r_next]) = "unknown" THEN fetches
          ELSE fetches + 1
    /\ \E done \in DrawFunc(widgets[r_next]) :
          IF done.exc # "none"
          THEN /\ r_exc' = [type |-> done.exc, site |-> done.site]
               /\ r_pc' = "raised"
               /\ UNCHANGED <<r_next, draws>>
          ELSE /\ draws' =
                     draws \o [j \in 1 .. Len(done.ops) |->
                                  Mark(done.ops[j], r_next)]
               /\ r_next' = r_next + 1
               /\ UNCHANGED <<r_pc, r_exc>>
    /\ UNCHANGED <<fetcher, widgets, r_index, r_screen>>
    /\ UNCHANGED <<network, display, pc, exc, config, app, now, touch,
                   handled, frame, screenshot, sent>>

\* return image
RenderReturn ==
    /\ r_pc = "widgets"
    /\ r_next > Len(widgets)
    /\ r_pc' = "returned"
    /\ UNCHANGED <<fetcher, widgets, r_next, r_exc, draws, r_index, r_screen,
                   fetches>>
    /\ UNCHANGED <<network, display, pc, exc, config, app, now, touch,
                   handled, frame, screenshot, sent>>

\* draw_screen followed step by step: on one standard screen with either
\* data fetcher, on a hero screen, on an empty screen list with any index,
\* and with an index past the end of the list
InitRender ==
    /\ LoopInit
    /\ DisplayIdle
    /\ ThroughputIdle
    /\ inactivity_timeout = 4
    /\ r_pc = "idle"
    /\ r_next = 0
    /\ r_exc = NoException
    /\ draws = <<>>
    /\ fetches = 0
    /\ fetcher \in {"monitor", "generate_screenshots"}
    /\ \/ /\ num_screens = 1
          /\ r_index = 0
          /\ r_screen \in StandardScreens
          /\ widgets \in Screens
       \/ /\ num_screens = 1
          /\ r_index = 0
          /\ r_screen \in HeroScreens
          /\ widgets \in HeroWidgetLists
       \/ /\ num_screens = 0
          /\ r_index \in 0 .. MaxScreens
          /\ r_screen = NoScreen
          /\ widgets = <<>>
       \/ /\ num_screens > 0
          /\ r_index \in num_screens .. MaxScreens
          /\ r_screen = NoScreen
          /\ widgets = <<>>

NextRender ==
    \/ RenderDiagnostic
    \/ RenderIndexError
    \/ RenderHero
    \/ RenderStart
    \/ DrawWidget
    \/ RenderReturn

SpecRender == InitRender /\ [][NextRender]_vars

\* -------------------------------------------------------- display driver

\* bit operations on non-negative integers
RECURSIVE BitAnd(_, _)
BitAnd(a, b) ==
    IF a = 0 \/ b = 0 THEN 0
    ELSE (a % 2) * (b % 2) + 2 * BitAnd(a \div 2, b \div 2)
RECURSIVE BitOr(_, _)
BitOr(a, b) ==
    IF a = 0 THEN b
    ELSE IF b = 0 THEN a
    ELSE (IF a % 2 = 1 \/ b % 2 = 1 THEN 1 ELSE 0)
             + 2 * BitOr(a \div 2, b \div 2)
RECURSIVE Pow2(_)
Pow2(n) == IF n = 0 THEN 1 ELSE 2 * Pow2(n - 1)
ShiftRight(a, n) == a \div Pow2(n)

\* numpy arithmetic on uint8 arrays keeps the low eight bits
Uint8(v) == v % 256
ShiftLeft8(a, n) == Uint8(a * Pow2(n))

\* a write to the reset pin, and st7789.command / st7789.data: the level of
\* the data/command pin and the byte on the bus
Rst(level) == [to |-> "RST", level |-> level]
Cmd(byte) == [to |-> "SPI", dc |-> FALSE, byte |-> byte]
Data(byte) == [to |-> "SPI", dc |-> TRUE, byte |-> byte]

\* st7789.reset
reset == <<Rst(TRUE), Rst(FALSE), Rst(TRUE)>>

\* a command followed by its parameters
Command(cmd, params) ==
    <<Cmd(cmd)>> \o [i \in 1 .. Len(params) |-> Data(params[i])]

\* st7789.lcd_init after the reset: every command and data call in order
lcd_init ==
    Command(17, <<>>)
    \o Command(54, <<0>>)
    \o Command(58, <<5>>)
    \o Command(240, <<195>>)
    \o Command(240, <<150>>)
    \o Command(180, <<1>>)
    \o Command(183, <<198>>)
    \o Command(192, <<128, 69>>)
    \o Command(193, <<19>>)
    \o Command(194, <<167>>)
    \o Command(197, <<10>>)
    \o Command(232, <<64, 138, 0, 0, 41, 25, 165, 51>>)
    \o Command(224, <<208, 8, 15, 6, 6, 51, 48, 51, 71, 23, 19, 19, 43, 49>>)
    \o Command(225, <<208, 10, 17, 11, 9, 7, 47, 51, 71, 56, 21, 22, 44, 50>>)
    \o Command(240, <<60>>)
    \o Command(240, <<105>>)
    \o Command(33, <<>>)
    \o Command(17, <<>>)
    \o Command(41, <<>>)

\* the values one colour channel of the image takes: both sides of the
\* limits of the 5-bit and 6-bit fields
Channels == {0, 4, 7, 8, 28, 31, 32, 36, 128, 227, 248, 252, 255}

\* sizes of the image show_image may be handed: landscape and portrait
ImageSizes == { <<LCD_WIDTH, LCD_HEIGHT>>, <<NATIVE_WIDTH, NATIVE_HEIGHT>> }

\* show_image: the two bytes np.add builds of one pixel
Encode_WideGreen(r, g, b) ==
    << Uint8(BitAnd(r, 248) + ShiftRight(g, 4)),
       Uint8(BitAnd(ShiftLeft8(g, 3), 224) + ShiftRight(b, 3)) >>
Encode(r, g, b) ==
    << Uint8(BitAnd(r, 248) + ShiftRight(g, 5)),
       Uint8(BitAnd(ShiftLeft8(g, 3), 224) + ShiftRight(b, 3)) >>

\* set_windows: the four bytes after 0x2A and the four after 0x2B, read by
\* the controller as 16-bit start and end addresses
Word(hi, lo) == hi * 256 + lo
set_windows(Xstart, Ystart, Xend, Yend) ==
    [xs |-> Word(Uint8(ShiftRight(Xstart, 8)), BitAnd(Xstart, 255)),
     xe |-> Word(Uint8(ShiftRight(Xend, 8)), BitAnd(Xend, 255)),
     ys |-> Word(Uint8(ShiftRight(Ystart, 8)), BitAnd(Ystart, 255)),
     ye |-> Word(Uint8(ShiftRight(Yend, 8)), BitAnd(Yend, 255))]

\* the command and data calls of set_windows, in order
SetWindowsWrites(Xstart, Ystart, Xend, Yend) ==
    Command(42, <<ShiftRight(Xstart, 8), BitAnd(Xstart, 255),
                  ShiftRight(Xend, 8), BitAnd(Xend, 255)>>)
    \o Command(43, <<ShiftRight(Ystart, 8), BitAnd(Ystart, 255),
                     ShiftRight(Yend, 8), BitAnd(Yend, 255)>>)
    \o Command(44, <<>>)

\* spi_writebyte of a slice of the buffer, at the level the data/command
\* pin has
Bytes(level, slice) == [to |-> "SPI", dc |-> level, slice |-> slice]

\* the slice buffer[i : i + 4096] as <<first index, index past the last>>
Slice_Overlapping(i, len) ==
    <<IF i = 0 THEN 0 ELSE i - 1,
      IF i + CHUNK_SIZE < len THEN i + CHUNK_SIZE ELSE len>>
Slice(i, len) == <<i, IF i + CHUNK_SIZE < len THEN i + CHUNK_SIZE ELSE len>>

\* an exception leaves the method being followed
DRaise(e) == d_exc' = e /\ d_pc' = "raised"

\* st7789.reset as called by lcd_init: one write to the reset pin
ResetWrite_Late ==
    /\ d_pc = "reset"
    /\ d_log' = Append(d_log, IF Len(d_log) = 0 THEN lcd_init[1]
                              ELSE reset[Len(d_log)])
    /\ d_pc' = IF Len(d_log) = Len(reset) THEN "lcd_init" ELSE "reset"
    /\ UNCHANGED <<d_exc, madctl, window, rgb, pix, buf_len, transfers>>
    /\ UNCHANGED <<dc, bus>>
    /\ UNCHANGED <<network, render, pc, exc, config, app, now, touch, handled,
                   frame, screenshot, sent>>
ResetWrite ==
    /\ d_pc = "reset"
    /\ d_log' = Append(d_log, reset[Len(d_log) + 1])
    /\ d_pc' = IF Len(d_log) + 1 = Len(reset) THEN "lcd_init" ELSE "reset"
    /\ UNCHANGED <<d_exc, madctl, window, rgb, pix, buf_len, transfers>>
    /\ UNCHANGED <<dc, bus>>
    /\ UNCHANGED <<network, render, pc, exc, config, app, now, touch, handled,
                   frame, screenshot, sent>>

\* st7789.lcd_init: one command or data call, which the bus may fail
LcdInitWrite ==
    /\ d_pc = "lcd_init"
    /\ dc' = lcd_init[Len(d_log) - Len(reset) + 1].dc
    /\ LET k == Len(d_log) - Len(reset) + 1
       IN  \E fail \in BOOLEAN :
              IF fail
              THEN DRaise("SPIError") /\ UNCHANGED <<d_log, madctl>>
              ELSE /\ d_log' = Append(d_log, lcd_init[k])
                   /\ madctl' =
                         IF k > 1 /\ lcd_init[k].dc
                                  /\ lcd_init[k - 1] = Cmd(54)
                         THEN lcd_init[k].byte ELSE madctl
                   /\ d_pc' =
                         IF k = Len(lcd_init) THEN "ready" ELSE "lcd_init"
                   /\ UNCHANGED d_exc
    /\ UNCHANGED <<window, rgb, pix, buf_len, transfers, bus>>
    /\ UNCHANGED <<network, render, pc, exc, config, app, now, touch, handled,
                   frame, screenshot, sent>>

\* st7789.show_image up to the conversion: size test, MADCTL, RGB565
ShowImageBegin_KeepOrientation ==
    /\ d_pc = "ready"
    /\ \E size \in ImageSizes, r \in Channels, g \in Channels, b \in Channels :
          IF ~(size[1] = NATIVE_HEIGHT /\ size[2] = NATIVE_WIDTH)
          THEN DRaise("ValueError") /\ UNCHANGED <<rgb, pix, buf_len, bus>>
          ELSE /\ bus' = <<>>
               /\ rgb' = <<r, g, b>>
               /\ pix' = Encode(r, g, b)
               /\ buf_len' = size[2] * size[1] * 2
               /\ d_pc' = "show_window"
               /\ UNCHANGED d_exc
    /\ UNCHANGED <<d_log, madctl, window, transfers, dc>>
    /\ UNCHANGED <<network, render, pc, exc, config, app, now, touch, handled,
                   frame, screenshot, sent>>
ShowImageBegin ==
    /\ d_pc = "ready"
    /\ \E size \in ImageSizes, r \in Channels, g \in Channels, b \in Channels :
          IF ~(size[1] = NATIVE_HEIGHT /\ size[2] = NATIVE_WIDTH)
          THEN /\ DRaise("ValueError")
               /\ UNCHANGED <<madctl, rgb, pix, buf_len, dc, bus>>
          ELSE /\ bus' = Command(54, <<56>>)
               /\ dc' = TRUE
               /\ madctl' = 56
               /\ rgb' = <<r, g, b>>
               /\ pix' = Encode(r, g, b)
               /\ buf_len' = size[2] * size[1] * 2
               /\ d_pc' = "show_window"
               /\ UNCHANGED d_exc
    /\ UNCHANGED <<d_log, window, transfers>>
    /\ UNCHANGED <<network, render, pc, exc, config, app, now, touch, handled,
                   frame, screenshot, sent>>

\* st7789.show_image: set_windows(0, 0, self.height - 1, self.width - 1)
ShowImageWindow_NoDataMode ==
    /\ d_pc = "show_window"
    /\ window' = set_windows(0, 0, NATIVE_HEIGHT - 1, NATIVE_WIDTH - 1)
    /\ bus' = bus \o SetWindowsWrites(0, 0, NATIVE_HEIGHT - 1,
                                      NATIVE_WIDTH - 1)
    /\ dc' = FALSE
    /\ transfers' = <<>>
    /\ d_pc' = "show_chunks"
    /\ UNCHANGED <<d_exc, d_log, madctl, rgb, pix, buf_len>>
    /\ UNCHANGED <<network, render, pc, exc, config, app, now, touch, handled,
                   frame, screenshot, sent>>
ShowImageWindow ==
    /\ d_pc = "show_window"
    /\ window' = set_windows(0, 0, NATIVE_HEIGHT - 1, NATIVE_WIDTH - 1)
    /\ bus' = bus \o SetWindowsWrites(0, 0, NATIVE_HEIGHT - 1,
                                      NATIVE_WIDTH - 1)
    /\ dc' = TRUE
    /\ transfers' = <<>>
    /\ d_pc' = "show_chunks"
    /\ UNCHANGED <<d_exc, d_log, madctl, rgb, pix, buf_len>>
    /\ UNCHANGED <<network, render, pc, exc, config, app, now, touch, handled,
                   frame, screenshot, sent>>

\* st7789.clear up to its chunk loop: the 0xff buffer and set_windows
ClearBegin ==
    /\ d_pc = "ready"
    /\ buf_len' = NATIVE_WIDTH * NATIVE_HEIGHT * 2
    /\ window' = set_windows(0, 0, NATIVE_WIDTH, NATIVE_HEIGHT)
    /\ bus' = SetWindowsWrites(0, 0, NATIVE_WIDTH, NATIVE_HEIGHT)
    /\ dc' = TRUE
    /\ transfers' = <<>>
    /\ d_pc' = "clear_chunks"
    /\ UNCHANGED <<d_exc, d_log, madctl, rgb, pix>>
    /\ UNCHANGED <<network, render, pc, exc, config, app, now, touch, handled,
                   frame, screenshot, sent>>

\* for i in range(0, len(buffer), 4096): one spi_writebyte, or the return
\* once the range is used up, which discards the method's locals
ChunkLoop ==
    /\ d_pc \in {"show_chunks", "clear_chunks"}
    /\ LET i == CHUNK_SIZE * Len(transfers)
       IN  IF i < buf_len
           THEN /\ \E fail \in BOOLEAN :
                      IF fail
                      THEN DRaise("SPIError") /\ UNCHANGED <<transfers, bus>>
                      ELSE /\ transfers' =
                                 Append(transfers, Slice(i, buf_len))
                           /\ bus' = Append(bus, Bytes(dc, Slice(i, buf_len)))
                           /\ UNCHANGED <<d_pc, d_exc>>
                /\ UNCHANGED <<rgb, pix, buf_len>>
           ELSE /\ d_pc' = "ready"
                /\ bus' = <<>>
                /\ rgb' = <<0, 0, 0>>
                /\ pix' = <<0, 0>>
                /\ buf_len' = 0
                /\ transfers' = <<>>
                /\ UNCHANGED d_exc
    /\ UNCHANGED <<d_log, madctl, window, dc>>
    /\ UNCHANGED <<network, render, pc, exc, config, app, now, touch, handled,
                   frame, screenshot, sent>>

\* the driver from the construction of st7789 on: __init__ runs lcd_init,
\* then clear and show_image are called in any order
InitDisplay ==
    /\ LoopInit
    /\ RenderIdle
    /\ ThroughputIdle
    /\ num_screens = 1
    /\ inactivity_timeout = 4
    /\ d_pc = "reset"
    /\ d_exc = "none"
    /\ d_log = <<>>
    /\ madctl = 0
    /\ window = [xs |-> 0, xe |-> 0, ys |-> 0, ye |-> 0]
    /\ rgb = <<0, 0, 0>>
    /\ pix = <<0, 0>>
    /\ buf_len = 0
    /\ transfers = <<>>
    /\ dc = TRUE
    /\ bus = <<>>

NextDisplay ==
    \/ ResetWrite
    \/ LcdInitWrite
    \/ ShowImageBegin
    \/ ShowImageWindow
    \/ ClearBegin
    \/ ChunkLoop

SpecDisplay == InitDisplay /\ [][NextDisplay]_vars

\* ------------------------------------------------- throughput measurement

_THROUGHPUT_CACHE_SECONDS == 2
_THROUGHPUT_MEASUREMENT_INTERVAL == 1

\* get_interface_rx/tx calls followed in one render, and the last second
\* of the clock
MaxCalls == 3
MaxWall == 5

\* byte-counter differences over the measurement interval
Speeds == {512, 2048}

\* f"{v:.1f}" of v = n / d, in tenths
Tenths(n, d) == (n * 10 + d \div 2) \div d

_format_speed(speed_bytes_per_sec) ==
    IF speed_bytes_per_sec > 1024 * 1024
    THEN [tenths |-> Tenths(speed_bytes_per_sec, 1024 * 1024),
          unit |-> "MB/s"]
    ELSE IF speed_bytes_per_sec > 1024
         THEN [tenths |-> Tenths(speed_bytes_per_sec, 1024),
               unit |-> "KB/s"]
         ELSE [tenths |-> speed_bytes_per_sec * 10, unit |-> "B/s"]

\* the cache holds a recent entry for the interface
CacheValid(interface_name, t) ==
    /\ interface_name \in DOMAIN _network_stats_cache
    /\ t - _network_stats_cache[interface_name].last_time
           < _THROUGHPUT_CACHE_SECONDS

\* the (rx, tx) strings of the "N/A" and "Error" returns
NotAvailable == <<"N/A", "N/A">>
ThroughputError == <<"Error", "Error">>

\* get_interface_rx / get_interface_tx call _update_and_get_throughput: up
\* to the first of a return from the cache, a return for an interface
\* psutil does not list, an exception of psutil, and time.sleep
GetInterface ==
    /\ t_pc = "idle"
    /\ t_calls < MaxCalls
    /\ \E interface_name \in Interfaces,
          outcome \in {"listed", "missing", "raises"} :
          /\ t_calls' = t_calls + 1
          /\ IF CacheValid(interface_name, wall)
             THEN /\ t_result' =
                         <<_network_stats_cache[interface_name].rx,
                           _network_stats_cache[interface_name].tx>>
                  /\ t_hits' = t_hits + 1
                  /\ UNCHANGED <<t_pc, t_interface, t_now, measurements>>
             ELSE /\ UNCHANGED t_hits
                  /\ CASE outcome = "raises" ->
                             /\ t_result' = ThroughputError
                             /\ UNCHANGED <<t_pc, t_interface, t_now,
                                            measurements>>
                       [] outcome = "missing" ->
                             /\ t_result' = NotAvailable
                             /\ UNCHANGED <<t_pc, t_interface, t_now,
                                            measurements>>
                       [] outcome = "listed" ->
                             /\ wall + _THROUGHPUT_MEASUREMENT_INTERVAL
                                    <= MaxWall
                             /\ t_pc' = "sleeping"
                             /\ t_interface' = interface_name
                             /\ t_now' = wall
                             /\ measurements' =
                                    [measurements EXCEPT
                                        ![interface_name] = @ + 1]
                             /\ UNCHANGED t_result
    /\ UNCHANGED <<_network_stats_cache, wall>>
    /\ UNCHANGED <<display, render, pc, exc, config, app, now, touch,
                   handled, frame, screenshot, sent>>

\* time.sleep returns and _update_and_get_throughput runs to its return:
\* the entry it stores carries the time read before the sleep
Measure ==
    /\ t_pc = "sleeping"
    /\ wall' = wall + _THROUGHPUT_MEASUREMENT_INTERVAL
    /\ t_pc' = "idle"
    /\ t_interface' = "none"
    /\ t_now' = 0
    /\ \E outcome \in {"listed", "missing", "raises"},
          rx_speed \in Speeds, tx_speed \in Speeds :
          CASE outcome = "raises" ->
                  /\ t_result' = ThroughputError
                  /\ UNCHANGED _network_stats_cache
            [] outcome = "missing" ->
                  /\ t_result' = NotAvailable
                  /\ UNCHANGED _network_stats_cache
            [] outcome = "listed" ->
                  LET rx_str == _format_speed(rx_speed)
                      tx_str == _format_speed(tx_speed)
                      entry == [last_time |-> t_now, rx |-> rx_str,
                                tx |-> tx_str]
                  IN  /\ _network_stats_cache' =
                             [n \in DOMAIN _network_stats_cache
                                       \cup {t_interface} |->
                                 IF n = t_interface
                                 THEN entry
                                 ELSE _network_stats_cache[n]]
                      /\ t_result' = <<rx_str, tx_str>>
    /\ UNCHANGED <<t_calls, t_hits, measurements>>
    /\ UNCHANGED <<display, render, pc, exc, config, app, now, touch,
                   handled, frame, screenshot, sent>>

\* the clock moves on between two calls while the render does other work
Elapse ==
    /\ t_pc = "idle"
    /\ wall < MaxWall
    /\ wall' = wall + 1
    /\ UNCHANGED <<_network_stats_cache, t_pc, t_interface, t_now, t_result,
                   t_calls, t_hits, measurements>>
    /\ UNCHANGED <<display, render, pc, exc, config, app, now, touch,
                   handled, frame, screenshot, sent>>

\* draw_screen returns; the cache outlives the render
RenderEnd ==
    /\ t_pc = "idle"
    /\ t_calls > 0
    /\ t_calls' = 0
    /\ t_hits' = 0
    /\ measurements' = [i \in Interfaces |-> 0]
    /\ UNCHANGED <<_network_stats_cache, wall, t_pc, t_interface, t_now,
                   t_result>>
    /\ UNCHANGED <<display, render, pc, exc, config, app, now, touch,
                   handled, frame, screenshot, sent>>

InitThroughput ==
    /\ Init
    /\ num_screens = 1
    /\ inactivity_timeout = 4

NextThroughput ==
    \/ GetInterface
    \/ Measure
    \/ Elapse
    \/ RenderEnd

SpecThroughput == InitThroughput /\ [][NextThroughput]_vars

TypeOK ==
    /\ pc \in {"keyboard", "read", "handle", "check", "draw", "show",
               "chunks", "finally", "done"}
    /\ exc \in ExcNames
    /\ num_screens \in 0 .. MaxScreens
    /\ inactivity_timeout \in Timeouts
    /\ current_screen \in 0 .. MaxScreens
    /\ is_sleeping \in BOOLEAN
    /\ now \in 0 .. MaxTime
    /\ last_activity_time \in 0 .. now
    /\ backlight \in {0, 100}
    /\ point_count \in PointCounts
    /\ touch_num \in PointCounts
    /\ sent \in 0 .. NumChunks
    /\ DOMAIN _network_stats_cache \subseteq Interfaces
    /\ wall \in 0 .. MaxWall
    /\ t_pc \in {"idle", "sleeping"}
    /\ t_calls \in 0 .. MaxCalls
    /\ t_hits \in 0 .. t_calls

\* ------------------------------------------------------------- properties

\* a step of handle_input that returned normally
Handled == pc = "handle" /\ pc' = "check"

\* a step of the tests run() makes after handle_input
Evaluated == pc = "check" /\ pc' \in {"keyboard", "draw"}

\* the loop has left its body
Exited == pc \in {"finally", "done"}

\* C1: a touch detected while Asleep makes the application Awake, sets the
\* backlight to 100, sets last_activity_time to the time of the touch and
\* leaves current_screen as it was, whatever the index and touch position.
C1_WakeOnTouch ==
    [][(Handled /\ point_count > 0 /\ is_sleeping) =>
          /\ ~is_sleeping'
          /\ backlight' = 100
          /\ last_activity_time' = now
          /\ current_screen' = current_screen]_vars

C1_Witness ==
    /\ pc = "check"
    /\ handled = "wake"
    /\ ~is_sleeping
    /\ backlight = 100
    /\ current_screen > 0

\* C2: while Awake with N >= 1 screens a Left touch moves current_screen to
\* the previous index and wraps from 0 to N-1, a Right touch moves it to
\* the next index and wraps from N-1 to 0; both set last_activity_time to
\* the time of the touch and leave is_sleeping FALSE.
C2_Navigate ==
    [][(Handled /\ point_count > 0 /\ ~is_sleeping /\ num_screens >= 1) =>
          /\ Zone(coordinates[1].y) = "left" =>
                /\ current_screen' = IF current_screen = 0
                                     THEN num_screens - 1
                                     ELSE current_screen - 1
                /\ last_activity_time' = now
                /\ ~is_sleeping'
          /\ Zone(coordinates[1].y) = "right" =>
                /\ current_screen' = IF current_screen = num_screens - 1
                                     THEN 0
                                     ELSE current_screen + 1
                /\ last_activity_time' = now
                /\ ~is_sleeping']_vars

C2_Witness ==
    /\ pc = "check"
    /\ handled = "left"
    /\ num_screens >= 2
    /\ current_screen = num_screens - 1
    /\ last_activity_time = now - SLEEP_TICKS
    /\ ~is_sleeping

RECURSIVE RepeatRight(_, _, _)
RepeatRight(k, cur, n) ==
    IF k = 0 THEN cur ELSE RepeatRight(k - 1, NavRight(cur, n), n)

RECURSIVE RepeatLeft(_, _, _)
RepeatLeft(k, cur, n) ==
    IF k = 0 THEN cur ELSE RepeatLeft(k - 1, NavLeft(cur, n), n)

\* C3: with M >= 1 screens, from every index the loop can hold, M Right
\* navigations lead back to that index, so do M Left navigations, and a
\* Left followed by a Right restores it.
C3_WrapAround ==
    num_screens >= 1 =>
       /\ RepeatRight(num_screens, current_screen, num_screens)
             = current_screen
       /\ RepeatLeft(num_screens, current_screen, num_screens)
             = current_screen
       /\ NavRight(NavLeft(current_screen, num_screens), num_screens)
             = current_screen

C3_Witness ==
    /\ pc = "check"
    /\ handled = "right"
    /\ num_screens >= 2
    /\ current_screen = 0

\* C4 as stated: while Awake with inactivity_timeout > 0, the iteration goes
\* to sleep (backlight 0) when it detected no touch and the elapsed time
\* exceeds the timeout, and never goes to sleep when it detected a touch or
\* the elapsed time is within the timeout.
C4_AsStated ==
    [][(Evaluated /\ ~is_sleeping /\ inactivity_timeout > 0) =>
          IF handled = "none"
             /\ now - last_activity_time > inactivity_timeout
          THEN is_sleeping' /\ backlight' = 0
          ELSE ~is_sleeping']_vars

\* C4 amended: while Awake with inactivity_timeout > 0, the iteration goes
\* to sleep (backlight 0) exactly when its timeout test finds the elapsed
\* time above the timeout, whether or not it detected a touch; no other
\* step of the loop makes the application Asleep.
C4_SleepOnTimeout ==
    [][/\ (Evaluated /\ ~is_sleeping /\ inactivity_timeout > 0) =>
             IF now - last_activity_time > inactivity_timeout
             THEN is_sleeping' /\ backlight' = 0
             ELSE ~is_sleeping'
       /\ (~is_sleeping /\ is_sleeping') =>
             /\ pc = "check"
             /\ inactivity_timeout > 0
             /\ now - last_activity_time > inactivity_timeout]_vars

C4_Witness ==
    /\ pc = "keyboard"
    /\ is_sleeping
    /\ backlight = 0
    /\ handled = "none"
    /\ inactivity_timeout = 4
    /\ now - last_activity_time = 6

\* C5: with inactivity_timeout <= 0 the application is never Asleep and the
\* backlight is never 0, however long no touch arrives.
C5_AlwaysOn ==
    inactivity_timeout <= 0 => (~is_sleeping /\ backlight # 0)

C5_Witness ==
    /\ inactivity_timeout <= 0
    /\ pc = "draw"
    /\ now - last_activity_time >= 3 * SLEEP_TICKS
    /\ ~is_sleeping
    /\ backlight = 100

\* C6: once run() has terminated, by interrupt or by an error, from Awake
\* or from Asleep, the backlight is 100.
C6_BacklightRestored ==
    pc = "done" => backlight = 100

C6_Witness ==
    /\ pc = "done"
    /\ is_sleeping
    /\ exc = "KeyboardInterrupt"
    /\ backlight = 100

\* C7: a bus failure while reading the touch controller never ends the
\* control loop; the poll counts as "no touch".
C7_TouchReadFailureNotFatal ==
    exc = "I2CError" => ~Exited

\* C8: a bus write failure during a frame push never ends the control loop.
C8_FramePushFailureNotFatal ==
    exc = "SPIError" => ~Exited

\* C9: the interrupt is never acted on in the middle of a frame transfer: a
\* transfer that has started sends all its chunks before shutdown begins.
C9_NoInterruptMidTransfer ==
    [][(exc = "none" /\ exc' = "KeyboardInterrupt") =>
          ~(pc = "chunks" /\ sent < NumChunks)]_vars

\* C10: a poll reads the bus only when the touch-ready input is asserted,
\* and returns a no-touch sample when it is not.
C10_ReadOnlyWhenReady ==
    /\ bus_read => tp_int
    /\ (pc = "handle" /\ ~tp_int) => point_count = 0

\* a position of the loop body, where get_touch_xy has consumed the sample
\* of the iteration or no poll is under way
BetweenPolls == pc \in {"keyboard", "read", "check", "draw", "show", "chunks"}

\* C11: the sample get_touch_xy hands out is the one this poll read: when
\* the point-count register read zero it is a no-touch sample whatever the
\* earlier polls returned, and once handed out a sample is gone, so no
\* later poll returns it again.
C11_NoStaleSample ==
    /\ pc = "handle" => point_count = touch_num
    /\ BetweenPolls => point_count = 0

C11_Witness ==
    /\ pc = "handle"
    /\ touch_num = 0
    /\ point_count = 0
    /\ handled \in {"left", "center", "right", "wake"}
    /\ coordinates[1] # ZeroPoint

\* C12: every coordinate a poll stores lies within the native panel,
\* 0 <= x <= 239 and 0 <= y <= 319, whatever the registers contain.
C12_WithinPanel ==
    \A i \in 1 .. 2 :
       /\ coordinates[i].x \in 0 .. NATIVE_WIDTH - 1
       /\ coordinates[i].y \in 0 .. NATIVE_HEIGHT - 1

\* C13: a poll completes without error for every point count >= 1 the
\* controller reports.
C13_AnyPointCount ==
    touch_num >= 1 => exc # "IndexError"

\* C14: with ui_x the raw y of the first point, the touch is Left iff
\* ui_x < 106, Right iff ui_x > 214 and Center otherwise; 106 and 214 are
\* Center.
C14_ZoneLimits ==
    /\ LEFT_ZONE_X_END = 106
    /\ RIGHT_ZONE_X_START = 214
    /\ (pc = "check" /\ handled \in {"left", "center", "right"}) =>
          handled = IF coordinates[1].y < 106 THEN "left"
                    ELSE IF coordinates[1].y > 214 THEN "right"
                    ELSE "center"

C14_Witness ==
    /\ pc = "check"
    /\ handled = "center"
    /\ coordinates[1].y = 214

\* C15: a touch in the Center zone while Awake changes neither
\* current_screen nor is_sleeping.
C15_CenterIsNoNavigation ==
    [][(Handled /\ point_count > 0 /\ ~is_sleeping
        /\ coordinates[1].y \in 106 .. 214) =>
          /\ current_screen' = current_screen
          /\ ~is_sleeping']_vars

C15_Witness ==
    /\ pc = "check"
    /\ handled = "center"
    /\ coordinates[1].y = 106
    /\ current_screen > 0
    /\ last_activity_time = now
    /\ ~is_sleeping

\* C16: the screenshot command renders the current screen and leaves
\* current_screen, is_sleeping, last_activity_time and the backlight as they
\* were, Awake or Asleep, and the loop goes on to its poll whether or not
\* the image could be saved.
C16_ScreenshotHarmless ==
    [][(pc = "keyboard" /\ exc' # "KeyboardInterrupt"
        /\ screenshot'.result # "none") =>
          /\ screenshot'.image = draw_screen(current_screen)
          /\ UNCHANGED <<current_screen, is_sleeping, last_activity_time,
                         backlight>>
          /\ pc' = "read"
          /\ exc' = "none"]_vars

\* the draw calls made for the widget at place i of the list
DrawsOf(i) == SelectSeq(draws, LAMBDA d : d.widget = i)

\* a reference that names no callable of system_info, or a callable whose
\* call with the given arguments raises
BadSource(d) ==
    /\ d.type \in {"str", "dict"}
    /\ LET func_name ==
               IF d.type = "str" THEN d ELSE get(d.items, "name", PyNone)
           args ==
               IF d.type = "dict" THEN get(d.items, "args", PyList(<<>>))
               ELSE PyList(<<>>)
       IN  /\ func_name.type = "str"
           /\ func_name.text # ""
           /\ \/ ~callable(func_name)
              \/ \E o \in Call(func_name, args) : o.exc # "none"

\* C17: whatever data-source reference a widget carries, the data fetch
\* returns a value to the widget handler: no exception ever leaves it.
C17_FetchNeverRaises == r_exc.site # "get_data"

\* C18: a widget of an unrecognized type never is the one that ends the
\* rendering, no draw call is ever made for it, and every widget of a
\* recognized type that the loop has passed, before or after it, has its
\* draw calls on the image.
C18_UnknownWidgetSkipped ==
    /\ (r_pc = "raised" /\ r_next >= 1) =>
          draw_func(widgets[r_next]) # "unknown"
    /\ \A j \in 1 .. Len(draws) :
          draws[j].widget > 0 =>
              draw_func(widgets[draws[j].widget]) # "unknown"
    /\ \A i \in 1 .. Len(widgets) :
          (i < r_next /\ draw_func(widgets[i]) # "unknown") =>
              DrawsOf(i) # <<>>

C18_Witness ==
    /\ r_pc = "returned"
    /\ Len(widgets) = 3
    /\ get(widgets[2], "type", "unknown") = "gauge"
    /\ DrawsOf(1) # <<>>
    /\ DrawsOf(2) = <<>>
    /\ DrawsOf(3) # <<>>

\* C19: on a screen with a widget whose data source names a missing
\* callable or a callable whose call raises, draw_screen still returns the
\* frame, and the frame has the draw calls of every widget of a recognized
\* type, a sentinel text among those of the widget with the bad source.
C19_BadSourceStillRenders ==
    \A i \in 1 .. Len(widgets) :
        ( /\ draw_func(widgets[i]) # "unknown"
          /\ "data_source" \in DOMAIN widgets[i]
          /\ BadSource(widgets[i].data_source) ) =>
            /\ r_pc # "raised"
            /\ r_pc = "returned" =>
                  /\ \A k \in 1 .. Len(widgets) :
                        draw_func(widgets[k]) # "unknown" =>
                            DrawsOf(k) # <<>>
                  /\ \E j \in 1 .. Len(draws) :
                        /\ draws[j].widget = i
                        /\ \E s \in Sentinels :
                              draws[j].text \in {s, "Cores: " \o s}

\* C20: a returned frame has, for every line_item_with_sub widget, exactly
\* three draw calls: the label at position, the main value data_x_offset to
\* the right on the same row, and the sub-value in parentheses sub_y_offset
\* (20 unless configured) below the main value.
C20_LineItemWithSub ==
    r_pc = "returned" =>
        \A i \in 1 .. Len(widgets) :
            get(widgets[i], "type", "unknown") = "line_item_with_sub" =>
                LET w == widgets[i]
                    x == w.position[1] + get(w, "data_x_offset", 140)
                    y == w.position[2]
                    d == DrawsOf(i)
                IN  /\ Len(d) = 3
                    /\ d[1].xy = w.position
                    /\ d[1].text = get(w, "label", "")
                    /\ d[2].xy = <<x, y>>
                    /\ d[3].xy = <<x, y + get(w, "sub_y_offset", 20)>>

\* C21: with an empty screen list draw_screen never raises, never enters
\* the standard or hero path and fetches no data, whatever index it is
\* given; what it returns is the one frame with the "no screens" text.
C21_EmptyListDiagnostic ==
    num_screens = 0 =>
        /\ r_pc \in {"idle", "returned"}
        /\ r_exc = NoException
        /\ fetches = 0
        /\ r_pc = "returned" =>
              /\ Len(draws) = 2
              /\ draws[1].op = "new"
              /\ draws[2].op = "text"
              /\ draws[2].text = "Error: No screens in config.yaml"

C21_Witness ==
    /\ num_screens = 0
    /\ r_index = MaxScreens
    /\ r_pc = "returned"
    /\ Len(draws) = 2

\* C22: rendering a hero screen makes no title-bar, indicator, title or
\* widget draw and no data fetch; it never ends in FileNotFoundError; with
\* no image path it never raises; and a frame it returns carries either the
\* pasted image or an error text, the "not set" text when the path is unset.
C22_HeroBypass ==
    LET image_name == get(r_screen, "image_path", PyNone)
    IN  get(r_screen, "type", "standard") = "hero" =>
          /\ fetches = 0
          /\ r_next = 0
          /\ \A j \in 1 .. Len(draws) :
                /\ draws[j].widget = 0
                /\ draws[j].op \in {"new", "paste", "text"}
                /\ draws[j].text # get(r_screen, "title", "")
          /\ r_exc.type # "FileNotFoundError"
          /\ Falsy(image_name) => r_pc # "raised"
          /\ r_pc = "returned" =>
                /\ Len(draws) = 2
                /\ draws[1].op = "new"
                /\ IF Falsy(image_name)
                   THEN /\ draws[2].op = "text"
                        /\ draws[2].text =
                              "Error: image_path not set for hero screen."
                   ELSE \/ draws[2].op = "paste"
                        \/ /\ draws[2].op = "text"
                           /\ draws[2].text =
                                 "Error: Cannot find " \o image_name.text

C22_Witness ==
    /\ get(r_screen, "type", "standard") = "hero"
    /\ "image_path" \in DOMAIN r_screen
    /\ r_screen.image_path.text = "logo.png"
    /\ widgets # <<>>
    /\ r_pc = "returned"
    /\ draws[2].text = "Error: Cannot find logo.png"

\* the number of draw calls one call of a widget's handler makes
HandlerDraws(widget_config) ==
    LET t == get(widget_config, "type", "unknown")
    IN  IF t = "line_item" THEN 2
        ELSE IF t \in {"dynamic_text", "static_text"} THEN 1
        ELSE 0

\* C23: once a standard screen is being painted, the draw calls on the
\* image are, in this order: the background, the title-bar rectangle, the
\* left and the right indicator, the title text, and then the calls of the
\* widgets in list order, each widget the loop has passed having the calls
\* of exactly one run of its handler and no other widget having any.
C23_PaintOrder ==
    (r_next >= 1 /\ get(r_screen, "type", "standard") # "hero") =>
        /\ Len(draws) >= 5
        /\ draws[1].op = "new"
        /\ draws[2].op = "rectangle"
        /\ draws[3].op = "polygon" /\ draws[3].tip_x = 10
        /\ draws[4].op = "polygon" /\ draws[4].tip_x = LCD_WIDTH - 10
        /\ draws[5].op = "text" /\ draws[5].text = get(r_screen, "title", "")
        /\ \A j \in 1 .. 5 : draws[j].widget = 0
        /\ \A j \in 6 .. Len(draws) :
              /\ draws[j].widget \in 1 .. Len(widgets)
              /\ j > 6 => draws[j - 1].widget <= draws[j].widget
        /\ \A i \in 1 .. Len(widgets) :
              Len(DrawsOf(i)) =
                  IF i < r_next THEN HandlerDraws(widgets[i]) ELSE 0

C23_Witness ==
    /\ r_pc = "returned"
    /\ Len(widgets) = 3
    /\ get(widgets[1], "type", "unknown") = "static_text"
    /\ get(widgets[2], "type", "unknown") = "dynamic_text"
    /\ get(widgets[3], "type", "unknown") = "line_item"
    /\ Len(draws) = 9
    /\ draws[6].widget = 1
    /\ draws[9].widget = 3

\* MADCTL bit 5 (MV) exchanges rows and columns: the largest column and row
\* address of the 240x320 panel under an orientation
MV(m) == (m \div 32) % 2 = 1
MaxColumn(m) == IF MV(m) THEN NATIVE_HEIGHT - 1 ELSE NATIVE_WIDTH - 1
MaxRow(m) == IF MV(m) THEN NATIVE_WIDTH - 1 ELSE NATIVE_HEIGHT - 1

\* the chunk loop has used up its range
Streamed == CHUNK_SIZE * Len(transfers) >= buf_len

\* the slices written so far follow one another from index 0, none longer
\* than 4096 bytes and none but the one that ends the buffer shorter
InOrderChunks ==
    \A k \in 1 .. Len(transfers) :
        /\ transfers[k][1] = IF k = 1 THEN 0 ELSE transfers[k - 1][2]
        /\ transfers[k][2] - transfers[k][1] \in 1 .. 4096
        /\ transfers[k][2] <= buf_len
        /\ transfers[k][2] < buf_len =>
              transfers[k][2] - transfers[k][1] = 4096

\* C24: show_image has written MADCTL 0x38 before it opens the window, and
\* the window it streams into is columns 0..319 by rows 0..239, inside the
\* panel as that orientation lays it out.
C24_WindowWithinPanel ==
    /\ d_pc = "show_window" => madctl = 56
    /\ d_pc = "show_chunks" =>
          /\ madctl = 56
          /\ window = [xs |-> 0, xe |-> 319, ys |-> 0, ye |-> 239]
          /\ window.xs <= window.xe /\ window.xe <= MaxColumn(madctl)
          /\ window.ys <= window.ye /\ window.ye <= MaxRow(madctl)

C24_Witness ==
    /\ d_pc = "show_chunks"
    /\ Len(transfers) = 1
    /\ window.xe = 319
    /\ window.ye = 239

\* C25: the transfers of a frame push are consecutive slices of the encoded
\* buffer starting at byte 0, each of at most 4096 bytes and all but the
\* last of exactly 4096, and when the loop is done they end at byte 153600.
C25_ChunkedInOrder ==
    d_pc = "show_chunks" =>
        /\ buf_len = 153600
        /\ InOrderChunks
        /\ Streamed =>
              /\ transfers # <<>>
              /\ transfers[Len(transfers)][2] = 320 * 240 * 2

C25_Witness ==
    /\ d_pc = "show_chunks"
    /\ Len(transfers) = 38
    /\ transfers[37] = <<147456, 151552>>
    /\ transfers[38] = <<151552, 153600>>

\* C26: clear streams native_width * native_height * 2 bytes in slices of
\* at most 4096 bytes into the window of columns 0..239 and rows 0..319.
C26_ClearCoversPanel ==
    d_pc = "clear_chunks" =>
        /\ buf_len = NATIVE_WIDTH * NATIVE_HEIGHT * 2
        /\ InOrderChunks
        /\ window = [xs |-> 0, xe |-> NATIVE_WIDTH - 1,
                     ys |-> 0, ye |-> NATIVE_HEIGHT - 1]

\* C27: the two bytes made of a pixel (R, G, B) are (R & 0xF8) | (G >> 5)
\* and ((G & 0x1C) << 3) | (B >> 3); the fields neither overlap nor
\* overflow a byte; read high byte first they are the RGB565 word; a frame
\* gives width * height * 2 bytes; pure red gives 0xF8 and 0x00.
C27_Rgb565 ==
    d_pc \in {"show_window", "show_chunks"} =>
        LET r == rgb[1]
            g == rgb[2]
            b == rgb[3]
        IN  /\ Len(pix) = 2
            /\ pix[1] = BitOr(BitAnd(r, 248), ShiftRight(g, 5))
            /\ pix[2] = BitOr(BitAnd(g, 28) * 8, ShiftRight(b, 3))
            /\ BitAnd(r, 248) + ShiftRight(g, 5) <= 255
            /\ BitAnd(g, 28) * 8 + ShiftRight(b, 3) <= 255
            /\ BitAnd(BitAnd(r, 248), ShiftRight(g, 5)) = 0
            /\ BitAnd(BitAnd(g, 28) * 8, ShiftRight(b, 3)) = 0
            /\ pix[1] * 256 + pix[2] =
                  (r \div 8) * 2048 + (g \div 4) * 32 + (b \div 8)
            /\ buf_len = LCD_WIDTH * LCD_HEIGHT * 2
            /\ rgb = <<255, 0, 0>> =>
                  BitAnd(pix[1], 248) = 248 /\ pix[2] = 0

C27_Witness ==
    /\ d_pc = "show_chunks"
    /\ rgb = <<255, 0, 0>>
    /\ pix = <<248, 0>>

\* the construction of st7789 has run lcd_init to its end
Initialized ==
    d_pc \in {"ready", "show_window", "show_chunks", "clear_chunks"}

\* C28: the first three writes of the construction are the reset pin
\* driven high, low, high, and every later write goes to the bus; what has
\* been written is always the beginning of the one fixed sequence; and once
\* lcd_init is done that sequence has 0x3A with parameter 0x05, the
\* inversion-on command 0x21 and the sleep-out command 0x11 in it and ends
\* with the display-on command 0x29.
C28_ResetThenFixedSequence ==
    /\ \A k \in 1 .. Len(d_log) :
          IF k <= 3
          THEN d_log[k] = <<Rst(TRUE), Rst(FALSE), Rst(TRUE)>>[k]
          ELSE d_log[k].to = "SPI"
    /\ Len(d_log) <= Len(reset \o lcd_init)
    /\ d_log = SubSeq(reset \o lcd_init, 1, Len(d_log))
    /\ Initialized =>
          /\ \E k \in 4 .. Len(d_log) - 1 :
                d_log[k] = Cmd(58) /\ d_log[k + 1] = Data(5)
          /\ \E k \in 4 .. Len(d_log) : d_log[k] = Cmd(33)
          /\ \E k \in 4 .. Len(d_log) : d_log[k] = Cmd(17)
          /\ d_log[Len(d_log)] = Cmd(41)

C28_Witness ==
    /\ d_pc = "ready"
    /\ Len(d_log) = 71
    /\ d_log[3] = Rst(TRUE)
    /\ d_log[4] = Cmd(17)
    /\ d_log[71] = Cmd(41)

\* C29: the application starts Awake at screen 0, and with one screen or
\* more the screen index is at every moment an index of the screen list, as
\* is the index of every frame rendered for the panel or for a screenshot.
C29_IndexInRange ==
    /\ current_screen = 0 /\ ~is_sleeping
    /\ [](num_screens >= 1 =>
            /\ current_screen \in 0 .. num_screens - 1
            /\ frame.type = "screen" => frame.index \in 0 .. num_screens - 1
            /\ screenshot.image.type = "screen" =>
                  screenshot.image.index \in 0 .. num_screens - 1)

C29_Witness ==
    /\ num_screens = MaxScreens
    /\ handled = "left"
    /\ current_screen = num_screens - 1
    /\ pc = "show"
    /\ frame = [type |-> "screen", index |-> num_screens - 1]
    /\ screenshot.result = "saved"

\* what one step of the loop may do to the frame of the panel: the frame
\* is rendered only by the step after the timeout evaluation, Awake, and
\* streamed only after that; an evaluation that finds the application
\* Asleep or puts it to sleep starts the next iteration at once; and an
\* iteration that rendered ends after the whole frame of the current
\* screen has been pushed once.
LoopFrameStep ==
    /\ (pc = "check" /\ pc' # "finally") =>
          /\ pc' \in {"keyboard", "draw"}
          /\ pc' = "draw" <=>
                /\ ~is_sleeping
                /\ ~(inactivity_timeout > 0
                     /\ now - last_activity_time > inactivity_timeout)
          /\ frame' = frame /\ sent' = sent
    /\ pc' = "draw" => pc = "check" /\ ~is_sleeping'
    /\ frame' # frame => pc = "draw" /\ ~is_sleeping
    /\ (pc = "draw" /\ pc' # "finally") =>
          pc' = "show" /\ frame' = draw_screen(current_screen)
    /\ pc' = "show" => pc = "draw"
    /\ sent' # sent => pc \in {"show", "chunks"} /\ ~is_sleeping
    /\ (pc' = "chunks" /\ pc # "chunks") => pc = "show" /\ sent' = 0
    /\ (pc = "chunks" /\ pc' = "keyboard") =>
          /\ sent = NumChunks
          /\ frame = draw_screen(current_screen)
    /\ (pc' = "keyboard" /\ pc # "chunks") => pc = "check"

C31_OneMeasurementPerRender ==
    \A i \in Interfaces : measurements[i] <= 1

\* groups of the last coordinate block that read_touch_data decoded
Decoded == { i \in 0 .. 1 : 6 * i + 6 <= Len(buf) }

\* C32: whatever the coordinate block holds, point i is decoded as
\* x = ((b[6i] & 0x0F) << 8) + b[6i+1] and y = ((b[6i+2] & 0x0F) << 8) +
\* b[6i+3], both in 0..4095, and the upper nibble of a high byte has no
\* influence on the result
C32_TwelveBitDecode ==
    \A i \in Decoded :
       LET b(k) == buf[6 * i + k + 1]
           p == coordinates[i + 1]
       IN  /\ p.x = BitAnd(b(0), 15) * Pow2(8) + b(1)
           /\ p.y = BitAnd(b(2), 15) * Pow2(8) + b(3)
           /\ p.x \in 0 .. 4095
           /\ p.y \in 0 .. 4095
           /\ p.x = Decode12(b(0) % 16, b(1))
           /\ p.y = Decode12(b(2) % 16, b(3))

\* a poll decoded a group whose high bytes have bits in the upper nibble
C32_Witness ==
    /\ pc = "handle"
    /\ touch_num = 1
    /\ buf = <<128, 10, 65, 44, 0, 0>>
    /\ coordinates[1] = [x |-> 10, y |-> 300]

\* what sleep_display and wake_up can write
power == <<is_sleeping, backlight, last_activity_time>>

\* a call of sleep_display, or of wake_up, that changes something
SleepDisplayChanges ==
    SleepDisplay /\ UNCHANGED last_activity_time /\ power' # power
WakeUpChanges == WakeUp /\ power' # power

\* C33: at every boundary between two iterations of the loop the backlight
\* is 0 if is_sleeping and 100 otherwise; within the loop only sleep_display
\* and wake_up change the backlight; and each of the two, called again in
\* the state it produced, changes nothing, last_activity_time included
C33_BacklightFollowsSleep ==
    /\ [](pc = "keyboard" => backlight = IF is_sleeping THEN 0 ELSE 100)
    /\ [][(backlight' # backlight /\ pc # "finally") =>
             \/ pc = "handle" /\ is_sleeping /\ WakeUp
             \/ pc = "check" /\ ~is_sleeping /\ SleepDisplay]_vars
    /\ [](is_sleeping => ~ENABLED SleepDisplayChanges)
    /\ [](~is_sleeping => ~ENABLED WakeUpChanges)

\* an iteration ended with sleep_display, and time has passed since the
\* last activity, so that a wake_up that wrote the time would show
C33_Witness ==
    /\ pc = "keyboard"
    /\ is_sleeping
    /\ backlight = 0
    /\ handled = "none"
    /\ inactivity_timeout = 1
    /\ now - last_activity_time > inactivity_timeout

\* C34: with an empty screens list no touch makes the loop raise: a touch
\* in the Left or Right zone while Awake leaves current_screen at 0 and the
\* loop goes on to render the diagnostic frame
C34_EmptyListTouchHarmless ==
    num_screens = 0 =>
        /\ current_screen = 0
        /\ exc # "ZeroDivisionError"
        /\ (handled \in {"left", "right"} => ~Exited)

\* C35: navigation is level-triggered: every poll that reports a touch in
\* the Left or Right zone while Awake moves current_screen by one step,
\* also when the poll before it navigated for a touch in the same zone, so
\* a touch held across k polls navigates k times
C35_LevelTriggered ==
    [][(Handled /\ point_count > 0 /\ ~is_sleeping /\ num_screens >= 1
           /\ Zone(coordinates[1].y) \in {"left", "right"}) =>
          /\ handled' = Zone(coordinates[1].y)
          /\ current_screen' =
                IF Zone(coordinates[1].y) = "left"
                THEN (current_screen - 1) % num_screens
                ELSE (current_screen + 1) % num_screens
          /\ current_screen' # current_screen \/ num_screens = 1]_vars

\* the poll before navigated Right and this poll reports a touch in the
\* Right zone again
C35_Witness ==
    /\ pc = "handle"
    /\ handled = "right"
    /\ point_count = 1
    /\ Zone(coordinates[1].y) = "right"
    /\ ~is_sleeping
    /\ num_screens = 2
    /\ current_screen = 1

\* C36: every touch detected while Awake, in the Center zone as in the
\* others, sets last_activity_time to the current time (as does the touch
\* that wakes the display), nothing else writes it, and the application
\* becomes Asleep only when more than inactivity_timeout has passed since
\* then: it cannot sleep earlier than that after the most recent touch
C36_TouchPostponesSleep ==
    [][/\ (Handled /\ point_count > 0) => last_activity_time' = now
       /\ last_activity_time' # last_activity_time =>
             (pc = "handle" /\ point_count > 0)
       /\ (~is_sleeping /\ is_sleeping') =>
             now - last_activity_time > inactivity_timeout]_vars

\* a touch in the Center zone, some time after the start, was recorded
C36_Witness ==
    /\ pc = "check"
    /\ handled = "center"
    /\ ~is_sleeping
    /\ now > 0
    /\ last_activity_time = now
    /\ inactivity_timeout > 0

\* the command and data calls show_image makes before the pixel data
FramePreamble ==
    <<Cmd(54), Data(56),
      Cmd(42), Data(0), Data(0), Data(1), Data(63),
      Cmd(43), Data(0), Data(0), Data(0), Data(239),
      Cmd(44)>>

\* C37: a frame push writes the orientation command 0x36 and its data
\* byte, the column-range command 0x2A and 4 data bytes, the row-range
\* command 0x2B and 4 data bytes, the memory-write command 0x2C, then the
\* pixel data, in this order; command bytes go out with the data/command
\* line low, parameter and pixel bytes with it high; an image that is not
\* 320x240 is rejected before any bus write
C37_FramePushOrder ==
    /\ d_pc = "show_window" => bus = SubSeq(FramePreamble, 1, 2)
    /\ d_pc = "show_chunks" =>
          /\ Len(bus) = Len(FramePreamble) + Len(transfers)
          /\ SubSeq(bus, 1, Len(FramePreamble)) = FramePreamble
          /\ \A k \in 1 .. Len(FramePreamble) :
                bus[k].dc = (bus[k].byte \notin {54, 42, 43, 44})
          /\ \A k \in 1 .. Len(transfers) :
                bus[Len(FramePreamble) + k] = Bytes(TRUE, transfers[k])
    /\ (d_pc = "raised" /\ d_exc = "ValueError") => bus = <<>>

\* two chunks of pixel data have followed the thirteen command and data
\* bytes
C37_Witness ==
    /\ d_pc = "show_chunks"
    /\ Len(transfers) = 2
    /\ Len(bus) = 15
    /\ bus[1] = Cmd(54)
    /\ bus[15].dc

====
